---- MODULE Spec2Model ----
(***************************************************************************)
(* Interaction moderation and threading engine of the church digital       *)
(* engagement platform: the Comment table (member-facing thread), the      *)
(* Interaction table (moderation-facing mirror), the Reaction table, the   *)
(* request handlers that write them, and the serializer that resolves a    *)
(* thread for a viewer.                                                    *)
(*                                                                         *)
(* Rows are kept in creation order: a table is a function from ids 1..n to *)
(* records, and a larger id means a later created_at.                      *)
(***************************************************************************)
EXTENDS Integers, Sequences, FiniteSets, TLC

VARIABLES posts, comments, interactions, reactions, response, atomic_requests, inflight

vars == <<posts, comments, interactions, reactions, response, atomic_requests, inflight>>

(***************************************************************************)
(* Bounds of the model.                                                    *)
(***************************************************************************)
MaxThreadComments == 3
MaxAnswerComments == 2
MaxAnswerInteractions == 2
MaxSyncComments == 2
MaxSyncInteractions == 2
MaxFollowupComments == 3
MaxFollowupInteractions == 2
MaxGateComments == 2

(***************************************************************************)
(* Users, roles and posts.                                                 *)
(***************************************************************************)
NULL == "NULL"
ANON == "anon"
NOREQUEST == "norequest"

Users == {"admin", "mod1", "mod2", "mem1", "mem2", "vis1"}

UserRole(u) ==
  CASE u = "admin" -> "ADMIN"
    [] u \in {"mod1", "mod2"} -> "MODERATOR"
    [] u \in {"mem1", "mem2"} -> "MEMBER"
    [] OTHER -> "VISITOR"

is_authenticated(u) == u \in Users

Posts == {"p1", "p2"}

author_id(p) == IF p = "p1" THEN "mod1" ELSE "admin"

BLANK == ""

Emojis == {"thumbsup", "pray", "heart", "bulb", "party"}

EMOJI_MAP(e) ==
  CASE e = "thumbsup" -> "LIKE"
    [] e = "pray" -> "AMEN"
    [] e = "heart" -> "LOVE"
    [] e = "bulb" -> "INSIGHT"
    [] e = "party" -> "PRAISE"

MASK == "This comment has been removed by moderation."
NOW == "now"

(***************************************************************************)
(* Tables.                                                                 *)
(***************************************************************************)
Ids(table) == DOMAIN table

Insert(table, row) == Append(table, row)

\* the row of largest created_at among ids, 0 when there is none: the model's
\* QuerySet.first() under Meta.ordering = ['-created_at']
first(ids) == IF ids = {} THEN 0 ELSE CHOOSE i \in ids : \A j \in ids : j <= i

Post(status, published, deleted, c_enabled, r_enabled) ==
  [status |-> status, is_published |-> published, is_deleted |-> deleted,
   comments_enabled |-> c_enabled, reactions_enabled |-> r_enabled]

Comment(p, u, content, parent, is_q) ==
  [post |-> p, user |-> u, content |-> content, parent |-> parent,
   is_question |-> is_q, question_status |-> "OPEN",
   answered_by |-> NULL, answered_at |-> NULL,
   is_deleted |-> FALSE, deleted_at |-> NULL, deleted_by |-> NULL,
   is_flagged |-> FALSE]

Interaction(p, u, parent, content, type, is_q, status) ==
  [post |-> p, user |-> u, parent |-> parent, content |-> content,
   type |-> type, is_question |-> is_q, status |-> status,
   is_flagged |-> FALSE, flagged_by |-> NULL, flagged_at |-> NULL,
   responded_by |-> NULL, responded_at |-> NULL,
   is_hidden |-> FALSE, is_deleted |-> FALSE]

Reaction(id, p, u, type, emoji) ==
  [id |-> id, post |-> p, user |-> u, reaction_type |-> type, emoji |-> emoji]

\* the last request and its response: the operation, the requesting user, the
\* post or the row id it addresses, the HTTP status and the message
Response(op, u, p, id, status, error) ==
  [op |-> op, user |-> u, post |-> p, id |-> id, status |-> status, error |-> error]

UNOBSERVED == Response("unobserved", NULL, NULL, 0, 0, NULL)

COMMENTS_DISABLED == "Comments are disabled for this post."
REACTIONS_DISABLED == "Reactions are disabled for this post."
UNPUBLISHED == "Cannot react to unpublished posts."
POST_DELETED == "Cannot react to deleted posts."
NOT_FOUND == "Not found."
INVALID == "validation"
SERVER_ERROR == "server error"

\* Comment rows / Interaction rows with the correlation key (post, user,
\* content, is_question = True)
CorrelatedComments(cs, p, u, content) ==
  {i \in Ids(cs) : cs[i].post = p /\ cs[i].user = u
                   /\ cs[i].content = content /\ cs[i].is_question}

CorrelatedInteractions(is, p, u, content) ==
  {i \in Ids(is) : is[i].post = p /\ is[i].user = u
                   /\ is[i].content = content /\ is[i].is_question}

Init ==
  /\ posts = [p \in Posts |-> Post("PUBLISHED", TRUE, FALSE, TRUE, TRUE)]
  /\ comments = <<>>
  /\ interactions = <<>>
  /\ reactions = {}
  /\ response \in {Response("none", NULL, NULL, 0, 0, NULL), UNOBSERVED}
  /\ atomic_requests \in BOOLEAN
  /\ inflight = <<>>

(***************************************************************************)
(* A handler is modelled by the database states it passes through: db is a *)
(* pair <<comments, interactions>>, and the writes of a request form a     *)
(* sequence of such pairs, one per statement that writes.  A request that  *)
(* completes leaves the last of them.  A request that raises after its     *)
(* k-th write leaves the k-th of them, unless the request runs inside a    *)
(* transaction (ATOMIC_REQUESTS), which rolls every write back.            *)
(***************************************************************************)
Last(steps) == steps[Len(steps)]

\* The response of the last request is recorded for the specifications whose
\* claims read responses; a specification that starts with
\* response = UNOBSERVED leaves the responses unrecorded.
Returns(resp) == response' = IF response = UNOBSERVED THEN UNOBSERVED ELSE resp

Commit(steps, resp) ==
  /\ comments' = Last(steps)[1]
  /\ interactions' = Last(steps)[2]
  /\ Returns(resp)
  /\ UNCHANGED <<posts, reactions, atomic_requests, inflight>>

Reject(resp) ==
  /\ Returns(resp)
  /\ UNCHANGED <<posts, comments, interactions, reactions, atomic_requests, inflight>>

Raise(steps, k, resp) ==
  /\ comments' = IF atomic_requests THEN comments ELSE steps[k][1]
  /\ interactions' = IF atomic_requests THEN interactions ELSE steps[k][2]
  /\ Returns(resp)
  /\ UNCHANGED <<posts, reactions, atomic_requests, inflight>>

(***************************************************************************)
(* CommentCreateSerializer: field validators and the cross-field check.    *)
(***************************************************************************)
validate_content(value) == value # BLANK

validate_post(p) == posts[p].is_published /\ ~posts[p].is_deleted

validate_parent(parent) == parent = 0 \/ ~comments[parent].is_deleted

validate(p, parent) == parent = 0 \/ comments[parent].post = p

CommentCreate_is_valid(p, content, parent) ==
  /\ validate_content(content)
  /\ validate_post(p)
  /\ validate_parent(parent)
  /\ validate(p, parent)

(***************************************************************************)
(* MemberCommentViewSet.create                                             *)
(***************************************************************************)
create_steps(u, p, content, parent, is_q) ==
  LET cs1 == Insert(comments, Comment(p, u, content, parent, is_q))
      is1 == Insert(interactions,
                    Interaction(p, u, 0, content, "QUESTION", TRUE, "OPEN"))
  IN  IF is_q THEN << <<cs1, interactions>>, <<cs1, is1>>, <<cs1, is1>> >>
              ELSE << <<cs1, interactions>>, <<cs1, interactions>> >>

\* create without the check of comments_enabled
create_unchecked(u, p, content, parent, is_q) ==
  IF ~CommentCreate_is_valid(p, content, parent)
  THEN Reject(Response("create", u, p, 0, 400, INVALID))
  ELSE Commit(create_steps(u, p, content, parent, is_q),
              Response("create", u, p, 0, 201, NULL))

create(u, p, content, parent, is_q) ==
  IF ~posts[p].comments_enabled
  THEN Reject(Response("create", u, p, 0, 403, COMMENTS_DISABLED))
  ELSE IF ~CommentCreate_is_valid(p, content, parent)
  THEN Reject(Response("create", u, p, 0, 400, INVALID))
  ELSE Commit(create_steps(u, p, content, parent, is_q),
              Response("create", u, p, 0, 201, NULL))

(***************************************************************************)
(* MemberCommentViewSet.get_queryset for the reply action, and reply.      *)
(***************************************************************************)
reply_queryset(u) ==
  {i \in Ids(comments) :
     UserRole(u) \in {"ADMIN", "MODERATOR"}
     \/ ~(comments[i].is_question /\ comments[i].user # u)}

\* the follow-up branch: reopen the original interaction and the parent
\* comment, or create an interaction for the reply
followup_steps(db, u, id, content, is_q) ==
  LET parent == comments[id]
      original_interaction ==
        first(CorrelatedInteractions(db[2], parent.post, parent.user, parent.content))
      reopened == [db[2] EXCEPT ![original_interaction] =
                     [@ EXCEPT !.status = "OPEN", !.responded_by = NULL,
                               !.responded_at = NULL]]
      parent_open == [db[1] EXCEPT ![id] =
                     [@ EXCEPT !.question_status = "OPEN", !.answered_by = NULL,
                               !.answered_at = NULL]]
      created == Insert(db[2], Interaction(parent.post, u, 0, content,
                                           "QUESTION", TRUE, "OPEN"))
  IN  IF is_q /\ parent.is_question /\ parent.user = u
      THEN IF original_interaction # 0
           THEN << <<db[1], reopened>>, <<parent_open, reopened>> >>
           ELSE << <<db[1], created>> >>
      ELSE IF is_q THEN << <<db[1], created>> >>
      ELSE << >>

\* answer_steps with the Comment write reduced to question_status
answer_steps_status_only(db, u, id) ==
  LET parent == comments[id]
      answered == [db[1] EXCEPT ![id] = [@ EXCEPT !.question_status = "ANSWERED"]]
  IN  IF parent.is_question /\ UserRole(u) \in {"ADMIN", "MODERATOR"}
      THEN << <<answered, db[2]>> >>
      ELSE << >>

\* a reply by a moderator or admin marks the parent question answered
answer_steps(db, u, id) ==
  LET parent == comments[id]
      answered == [db[1] EXCEPT ![id] =
                     [@ EXCEPT !.question_status = "ANSWERED", !.answered_by = u,
                               !.answered_at = NOW]]
      updated == [i \in Ids(db[2]) |->
                     IF i \in CorrelatedInteractions(db[2], parent.post,
                                                     parent.user, parent.content)
                     THEN [db[2][i] EXCEPT !.status = "ANSWERED",
                                           !.responded_by = u,
                                           !.responded_at = NOW]
                     ELSE db[2][i]]
  IN  IF parent.is_question /\ UserRole(u) \in {"ADMIN", "MODERATOR"}
      THEN << <<answered, db[2]>>, <<answered, updated>> >>
      ELSE << >>

reply_steps(u, id, content, is_q) ==
  LET parent == comments[id]
      saved == << <<Insert(comments, Comment(parent.post, u, content, id, is_q)),
                    interactions>> >>
      follow == saved \o followup_steps(Last(saved), u, id, content, is_q)
      answer == follow \o answer_steps(Last(follow), u, id)
  IN  answer \o << Last(answer) >>

\* reply_response without the check of comments_enabled
reply_response_ungated(u, id, content) ==
  IF id \notin reply_queryset(u)
  THEN Response("reply", u, comments[id].post, id, 404, NOT_FOUND)
  ELSE IF ~CommentCreate_is_valid(comments[id].post, content, id)
  THEN Response("reply", u, comments[id].post, id, 400, INVALID)
  ELSE Response("reply", u, comments[id].post, id, 201, NULL)

reply_response(u, id, content) ==
  IF id \notin reply_queryset(u)
  THEN Response("reply", u, comments[id].post, id, 404, NOT_FOUND)
  ELSE IF ~posts[comments[id].post].comments_enabled
  THEN Response("reply", u, comments[id].post, id, 403, COMMENTS_DISABLED)
  ELSE IF ~CommentCreate_is_valid(comments[id].post, content, id)
  THEN Response("reply", u, comments[id].post, id, 400, INVALID)
  ELSE Response("reply", u, comments[id].post, id, 201, NULL)

reply(u, id, content, is_q) ==
  IF reply_response(u, id, content).status # 201
  THEN Reject(reply_response(u, id, content))
  ELSE Commit(reply_steps(u, id, content, is_q), reply_response(u, id, content))

\* the request raises after its k-th write (a database error in a later
\* statement)
reply_raises(u, id, content, is_q, k) ==
  /\ reply_response(u, id, content).status = 201
  /\ k \in 1..Len(reply_steps(u, id, content, is_q)) - 1
  /\ Raise(reply_steps(u, id, content, is_q), k,
           Response("reply", u, comments[id].post, id, 500, SERVER_ERROR))


(***************************************************************************)
(* InteractionViewSet: queryset, response permission and the handlers.     *)
(***************************************************************************)
interaction_queryset(u) ==
  {i \in Ids(interactions) :
     /\ ~interactions[i].is_deleted
     /\ (UserRole(u) \in {"ADMIN", "MODERATOR"} \/ interactions[i].user = u)}

check_response_permission(u, interaction) ==
  IF UserRole(u) = "ADMIN" THEN TRUE
  ELSE IF UserRole(u) = "MODERATOR"
  THEN interaction.is_question /\ author_id(interaction.post) = u
  ELSE FALSE

\* Interaction.mark_answered
mark_answered(is, iid, responder) ==
  IF is[iid].is_question
  THEN [is EXCEPT ![iid] = [@ EXCEPT !.status = "ANSWERED",
                                     !.responded_by = responder,
                                     !.responded_at = NOW]]
  ELSE is

\* InteractionCreateSerializer.validate and the required content field
InteractionCreate_is_valid(p, content) ==
  content # BLANK /\ posts[p].is_published

\* InteractionCreateSerializer.create through InteractionViewSet.create
interaction_create(u, p, content, is_q, parent) ==
  IF ~InteractionCreate_is_valid(p, content)
  THEN Reject(Response("interaction_create", u, p, 0, 400, INVALID))
  ELSE LET row == Interaction(p, u, parent, content,
                              IF is_q THEN "QUESTION" ELSE "COMMENT", is_q,
                              IF is_q THEN "OPEN" ELSE "CLOSED")
           steps == << <<comments, Insert(interactions, row)>> >>
       IN  Commit(steps, Response("interaction_create", u, p, 0, 201, NULL))

respond_steps(u, iid, content) ==
  LET interaction == interactions[iid]
      replied == Insert(interactions,
                        Interaction(interaction.post, u, iid, content,
                                    "COMMENT", FALSE, "CLOSED"))
      original_comment ==
        first(CorrelatedComments(comments, interaction.post, interaction.user,
                                 interaction.content))
      with_reply == Insert(comments, Comment(interaction.post, u, content,
                                             original_comment, FALSE))
      answered == [with_reply EXCEPT ![original_comment] =
                     [@ EXCEPT !.question_status = "ANSWERED", !.answered_by = u,
                               !.answered_at = NOW]]
      marked == mark_answered(replied, iid, u)
  IN  IF original_comment # 0
      THEN << <<comments, replied>>, <<with_reply, replied>>,
              <<answered, replied>>, <<answered, marked>> >>
      ELSE << <<comments, replied>>, <<comments, marked>> >>

respond_response(u, iid, content) ==
  IF iid \notin interaction_queryset(u)
  THEN Response("respond", u, interactions[iid].post, iid, 404, NOT_FOUND)
  ELSE IF ~interactions[iid].is_question
  THEN Response("respond", u, interactions[iid].post, iid, 400, "Can only respond to questions")
  ELSE IF ~check_response_permission(u, interactions[iid])
  THEN Response("respond", u, interactions[iid].post, iid, 403,
                "You do not have permission to respond to this question")
  ELSE IF content = BLANK
  THEN Response("respond", u, interactions[iid].post, iid, 400, INVALID)
  ELSE Response("respond", u, interactions[iid].post, iid, 200, NULL)

respond(u, iid, content) ==
  IF respond_response(u, iid, content).status # 200
  THEN Reject(respond_response(u, iid, content))
  ELSE Commit(respond_steps(u, iid, content), respond_response(u, iid, content))

\* InteractionUpdateSerializer.validate_status
validate_status(instance, value) ==
  /\ instance.is_question => value \in {"ANSWERED", "CLOSED"}
  /\ instance.is_flagged => value \in {"PENDING", "REVIEWED", "ACTIONED"}

\* ModelViewSet.update / partial_update with InteractionUpdateSerializer;
\* a field that the request leaves out is NULL
update(u, iid, status, is_hidden) ==
  IF iid \notin interaction_queryset(u)
  THEN Reject(Response("update", u, interactions[iid].post, iid, 404, NOT_FOUND))
  ELSE IF status # NULL /\ ~validate_status(interactions[iid], status)
  THEN Reject(Response("update", u, interactions[iid].post, iid, 400, INVALID))
  ELSE Commit(<< <<comments,
                   [interactions EXCEPT ![iid] =
                      [@ EXCEPT !.status = IF status = NULL THEN @ ELSE status,
                                !.is_hidden = IF is_hidden = NULL THEN @
                                              ELSE is_hidden]]>> >>,
              Response("update", u, interactions[iid].post, iid, 200, NULL))

\* InteractionViewSet.flag with Interaction.flag
flag(u, iid) ==
  IF iid \notin interaction_queryset(u)
  THEN Reject(Response("flag", u, interactions[iid].post, iid, 404, NOT_FOUND))
  ELSE IF interactions[iid].is_flagged
  THEN Reject(Response("flag", u, interactions[iid].post, iid, 400, "This interaction is already flagged"))
  ELSE Commit(<< <<comments,
                   [interactions EXCEPT ![iid] =
                      [@ EXCEPT !.is_flagged = TRUE, !.flagged_by = u,
                                !.flagged_at = NOW, !.status = "PENDING"]]>> >>,
              Response("flag", u, interactions[iid].post, iid, 200, NULL))

mark_reviewed(u, iid) ==
  IF UserRole(u) # "ADMIN"
  THEN Reject(Response("mark_reviewed", u, interactions[iid].post, iid, 403,
                       "Only admins can mark items as reviewed"))
  ELSE IF iid \notin interaction_queryset(u)
  THEN Reject(Response("mark_reviewed", u, interactions[iid].post, iid, 404, NOT_FOUND))
  ELSE IF ~interactions[iid].is_flagged
  THEN Reject(Response("mark_reviewed", u, interactions[iid].post, iid, 400,
                       "This interaction is not flagged"))
  ELSE Commit(<< <<comments,
                   [interactions EXCEPT ![iid] = [@ EXCEPT !.status = "REVIEWED"]]>> >>,
              Response("mark_reviewed", u, interactions[iid].post, iid, 200, NULL))

\* the Comment.objects.filter(...).update(is_deleted=...) of hide and unhide
set_deleted(cs, interaction, value) ==
  [i \in Ids(cs) |->
     IF i \in CorrelatedComments(cs, interaction.post, interaction.user,
                                 interaction.content)
     THEN [cs[i] EXCEPT !.is_deleted = value]
     ELSE cs[i]]

\* hide_steps without the write to the Comment table
hide_steps_unmirrored(iid) ==
  LET hidden == [interactions EXCEPT ![iid] = [@ EXCEPT !.is_hidden = TRUE]]
  IN  << <<comments, hidden>> >>

hide_steps(iid) ==
  LET hidden == [interactions EXCEPT ![iid] = [@ EXCEPT !.is_hidden = TRUE]]
  IN  << <<comments, hidden>>,
         <<set_deleted(comments, interactions[iid], TRUE), hidden>> >>

\* hide without the check of the role
hide_any_role(u, iid) ==
  IF iid \notin interaction_queryset(u)
  THEN Reject(Response("hide", u, interactions[iid].post, iid, 404, NOT_FOUND))
  ELSE Commit(hide_steps(iid), Response("hide", u, interactions[iid].post, iid, 200, NULL))

hide(u, iid) ==
  IF UserRole(u) # "ADMIN"
  THEN Reject(Response("hide", u, interactions[iid].post, iid, 403, "Only admins can hide interactions"))
  ELSE IF iid \notin interaction_queryset(u)
  THEN Reject(Response("hide", u, interactions[iid].post, iid, 404, NOT_FOUND))
  ELSE Commit(hide_steps(iid), Response("hide", u, interactions[iid].post, iid, 200, NULL))

unhide_steps(iid) ==
  LET shown == [interactions EXCEPT ![iid] = [@ EXCEPT !.is_hidden = FALSE]]
  IN  << <<comments, shown>>,
         <<set_deleted(comments, interactions[iid], FALSE), shown>> >>

unhide(u, iid) ==
  IF UserRole(u) # "ADMIN"
  THEN Reject(Response("unhide", u, interactions[iid].post, iid, 403, "Only admins can unhide interactions"))
  ELSE IF iid \notin interaction_queryset(u)
  THEN Reject(Response("unhide", u, interactions[iid].post, iid, 404, NOT_FOUND))
  ELSE Commit(unhide_steps(iid), Response("unhide", u, interactions[iid].post, iid, 200, NULL))

\* InteractionViewSet.close with Interaction.close
close(u, iid) ==
  IF iid \notin interaction_queryset(u)
  THEN Reject(Response("close", u, interactions[iid].post, iid, 404, NOT_FOUND))
  ELSE IF ~check_response_permission(u, interactions[iid])
  THEN Reject(Response("close", u, interactions[iid].post, iid, 403,
                       "You do not have permission to close this interaction"))
  ELSE Commit(<< <<comments,
                   [interactions EXCEPT ![iid] = [@ EXCEPT !.status = "CLOSED"]]>> >>,
              Response("close", u, interactions[iid].post, iid, 200, NULL))

(***************************************************************************)
(* AdminCommentViewSet (comment_views): soft delete and restore, open to   *)
(* ADMIN and MODERATOR (IsModerator).                                      *)
(***************************************************************************)
IsModerator(u) == is_authenticated(u) /\ UserRole(u) \in {"ADMIN", "MODERATOR"}

\* Comment.soft_delete
soft_delete(cs, id, u) ==
  [cs EXCEPT ![id] = [@ EXCEPT !.is_deleted = TRUE, !.deleted_at = NOW,
                               !.deleted_by = u]]

destroy(u, id) ==
  IF ~IsModerator(u)
  THEN Reject(Response("destroy", u, comments[id].post, id, 403, "permission denied"))
  ELSE IF comments[id].is_deleted
  THEN Reject(Response("destroy", u, comments[id].post, id, 400, "Comment already deleted"))
  ELSE Commit(<< <<soft_delete(comments, id, u), interactions>>,
                 <<soft_delete(comments, id, u), interactions>> >>,
              Response("destroy", u, comments[id].post, id, 204, NULL))

restore(u, id) ==
  IF ~IsModerator(u)
  THEN Reject(Response("restore", u, comments[id].post, id, 403, "permission denied"))
  ELSE IF ~comments[id].is_deleted
  THEN Reject(Response("restore", u, comments[id].post, id, 400, "Comment is not deleted"))
  ELSE LET restored == [comments EXCEPT ![id] =
                          [@ EXCEPT !.is_deleted = FALSE, !.deleted_at = NULL,
                                    !.deleted_by = NULL]]
       IN  Commit(<< <<restored, interactions>>, <<restored, interactions>> >>,
                  Response("restore", u, comments[id].post, id, 200, NULL))

(***************************************************************************)
(* react_to_post: one Reaction row per (post, user).                       *)
(***************************************************************************)
\* existing_reaction looked up by the post alone
existing_reaction_of_anyone(p, u) == {r \in reactions : r.post = p}

existing_reaction(p, u) == {r \in reactions : r.post = p /\ r.user = u}

\* the primary key of a row about to be created: one that no stored row has
new_reaction_id ==
  CHOOSE i \in 1..(Cardinality(reactions) + 1) :
    /\ i \notin {r.id : r \in reactions}
    /\ \A j \in 1..(i - 1) : j \in {r.id : r \in reactions}

\* react_response without the check of reactions_enabled
react_response_ungated(u, p, emoji) ==
  LET reaction_type == EMOJI_MAP(emoji)
  IN  IF ~posts[p].is_published
      THEN Response("react", u, p, 0, 400, UNPUBLISHED)
      ELSE IF posts[p].is_deleted
      THEN Response("react", u, p, 0, 400, POST_DELETED)
      ELSE IF emoji \notin Emojis
      THEN Response("react", u, p, 0, 400, INVALID)
      ELSE IF \E r \in existing_reaction(p, u) : r.reaction_type = reaction_type
      THEN Response("react", u, p, 0, 200, "Reaction removed")
      ELSE IF existing_reaction(p, u) # {}
      THEN Response("react", u, p, 0, 200, "Reaction updated")
      ELSE Response("react", u, p, 0, 201, "Reaction created")

react_response(u, p, emoji) ==
  LET reaction_type == EMOJI_MAP(emoji)
  IN  IF ~posts[p].is_published
      THEN Response("react", u, p, 0, 400, UNPUBLISHED)
      ELSE IF ~posts[p].reactions_enabled
      THEN Response("react", u, p, 0, 400, REACTIONS_DISABLED)
      ELSE IF posts[p].is_deleted
      THEN Response("react", u, p, 0, 400, POST_DELETED)
      ELSE IF emoji \notin Emojis
      THEN Response("react", u, p, 0, 400, INVALID)
      ELSE IF \E r \in existing_reaction(p, u) : r.reaction_type = reaction_type
      THEN Response("react", u, p, 0, 200, "Reaction removed")
      ELSE IF existing_reaction(p, u) # {}
      THEN Response("react", u, p, 0, 200, "Reaction updated")
      ELSE Response("react", u, p, 0, 201, "Reaction created")

\* react_to_post with the update written as a second row instead of a change
\* of the existing one
react_to_post_appends(u, p, emoji) ==
  LET resp == react_response(u, p, emoji)
      mine == existing_reaction(p, u)
      created == Reaction(new_reaction_id, p, u, EMOJI_MAP(emoji), emoji)
  IN  /\ Returns(resp)
      /\ reactions' =
           IF resp.error = "Reaction removed" THEN reactions \ mine
           ELSE IF resp.error \in {"Reaction updated", "Reaction created"}
           THEN reactions \cup {created}
           ELSE reactions
      /\ UNCHANGED <<posts, comments, interactions, atomic_requests, inflight>>

react_to_post(u, p, emoji) ==
  LET resp == react_response(u, p, emoji)
      mine == existing_reaction(p, u)
      updated == {[r EXCEPT !.reaction_type = EMOJI_MAP(emoji), !.emoji = emoji] :
                    r \in mine}
      created == Reaction(new_reaction_id, p, u, EMOJI_MAP(emoji), emoji)
  IN  /\ Returns(resp)
      /\ reactions' =
           IF resp.error = "Reaction removed" THEN reactions \ mine
           ELSE IF resp.error = "Reaction updated"
           THEN (reactions \ mine) \cup updated
           ELSE IF resp.error = "Reaction created"
           THEN reactions \cup {created}
           ELSE reactions
      /\ UNCHANGED <<posts, comments, interactions, atomic_requests, inflight>>

(***************************************************************************)
(* Post management (an external collaborator): the steps that change the   *)
(* fields the engine consults.                                             *)
(***************************************************************************)
SetPost(p, row) ==
  /\ posts' = [posts EXCEPT ![p] = row]
  /\ UNCHANGED <<comments, interactions, reactions, response, atomic_requests, inflight>>

toggle_comments(p) ==
  SetPost(p, [posts[p] EXCEPT !.comments_enabled = ~@])

toggle_reactions(p) ==
  SetPost(p, [posts[p] EXCEPT !.reactions_enabled = ~@])

\* AdminPostViewSet.publish with Post.publish
publish(p) ==
  /\ posts[p].status # "PUBLISHED"
  /\ SetPost(p, [posts[p] EXCEPT !.is_published = TRUE, !.status = "PUBLISHED"])

\* AdminPostViewSet.unpublish with Post.unpublish
unpublish(p) ==
  /\ posts[p].is_published
  /\ SetPost(p, [posts[p] EXCEPT !.is_published = FALSE, !.status = "DRAFT"])

\* AdminPostViewSet.perform_destroy with Post.soft_delete
post_soft_delete(p) ==
  /\ ~posts[p].is_deleted
  /\ SetPost(p, [posts[p] EXCEPT !.is_deleted = TRUE, !.is_published = FALSE])

(***************************************************************************)
(* Reading a thread: PublicCommentViewSet.get_queryset and the recursive   *)
(* CommentSerializer.  A viewer is a user, ANON (AnonymousUser) or         *)
(* NOREQUEST (a serializer built without request context).                 *)
(***************************************************************************)
Viewers == Users \cup {ANON, NOREQUEST}

replies(cs, id) == {i \in Ids(cs) : cs[i].parent = id}

\* ids in ascending created_at
RECURSIVE order_by_created_at(_)
order_by_created_at(ids) ==
  IF ids = {} THEN << >>
  ELSE LET oldest == CHOOSE i \in ids : \A j \in ids : i <= j
       IN  <<oldest>> \o order_by_created_at(ids \ {oldest})

Reverse(seq) == [i \in 1..Len(seq) |-> seq[Len(seq) + 1 - i]]

\* visible_replies without the exclusion for members: only anonymous viewers
\* are kept from questions
visible_replies_members_unfiltered(cs, obj, v) ==
  LET not_deleted == {i \in replies(cs, obj) : ~cs[i].is_deleted}
  IN  IF v = NOREQUEST
      THEN {i \in not_deleted : ~cs[i].is_question}
      ELSE IF cs[obj].user = v
      THEN not_deleted
      ELSE IF ~is_authenticated(v)
      THEN {i \in not_deleted : ~cs[i].is_question}
      ELSE not_deleted

\* the question filter that get_replies and get_reply_count apply to the
\* non-deleted replies of obj
visible_replies(cs, obj, v) ==
  LET not_deleted == {i \in replies(cs, obj) : ~cs[i].is_deleted}
  IN  IF v = NOREQUEST
      THEN {i \in not_deleted : ~cs[i].is_question}
      ELSE IF cs[obj].user = v
      THEN not_deleted
      ELSE IF ~is_authenticated(v)
      THEN {i \in not_deleted : ~cs[i].is_question}
      ELSE IF UserRole(v) \notin {"ADMIN", "MODERATOR"}
      THEN {i \in not_deleted : ~(cs[i].is_question /\ cs[i].user # v)}
      ELSE not_deleted

get_replies(obj, v) == order_by_created_at(visible_replies(comments, obj, v))

\* get_reply_count without the question filter: every non-deleted reply
get_reply_count_unfiltered(obj, v) ==
  Cardinality({i \in replies(comments, obj) : ~comments[i].is_deleted})

\* CommentSerializer.get_reply_count: its own copy of the filter, then
\* count()
get_reply_count(obj, v) ==
  LET not_deleted == {i \in replies(comments, obj) : ~comments[i].is_deleted}
      no_questions == {i \in not_deleted : ~comments[i].is_question}
      counted ==
        IF v # NOREQUEST
        THEN IF comments[obj].user = v THEN not_deleted
             ELSE IF ~is_authenticated(v) THEN no_questions
             ELSE IF UserRole(v) \notin {"ADMIN", "MODERATOR"}
             THEN {i \in not_deleted :
                     ~(comments[i].is_question /\ comments[i].user # v)}
             ELSE not_deleted
        ELSE no_questions
  IN  Cardinality(counted)

\* PublicCommentViewSet.get_queryset: top-level comments of a post, newest
\* first, without the questions the viewer may not see
public_queryset(v, p) ==
  LET top == {i \in Ids(comments) : comments[i].post = p /\ comments[i].parent = 0}
  IN  IF ~is_authenticated(v)
      THEN {i \in top : ~comments[i].is_question}
      ELSE IF UserRole(v) \notin {"ADMIN", "MODERATOR"}
      THEN {i \in top : ~(comments[i].is_question /\ comments[i].user # v)}
      ELSE top

\* to_representation without the masking of deleted content
RECURSIVE to_representation_unmasked(_, _)
to_representation_unmasked(id, v) ==
  LET instance == comments[id]
      nested == get_replies(id, v)
  IN  [id |-> id, user |-> instance.user, parent |-> instance.parent,
       content |-> instance.content,
       is_deleted |-> instance.is_deleted,
       is_question |-> instance.is_question,
       question_status |-> instance.question_status,
       answered_by |-> instance.answered_by,
       replies |-> [i \in 1..Len(nested) |-> to_representation_unmasked(nested[i], v)],
       reply_count |-> get_reply_count(id, v)]

\* CommentSerializer.to_representation: the serialized comment, with the
\* content of a deleted comment masked and the replies nested
RECURSIVE to_representation(_, _)
to_representation(id, v) ==
  LET instance == comments[id]
      nested == get_replies(id, v)
  IN  [id |-> id, user |-> instance.user, parent |-> instance.parent,
       content |-> IF instance.is_deleted THEN MASK ELSE instance.content,
       is_deleted |-> instance.is_deleted,
       is_question |-> instance.is_question,
       question_status |-> instance.question_status,
       answered_by |-> instance.answered_by,
       replies |-> [i \in 1..Len(nested) |-> to_representation(nested[i], v)],
       reply_count |-> get_reply_count(id, v)]

\* PublicCommentViewSet.list: what a viewer receives for a post
list(v, p) ==
  LET ordered == Reverse(order_by_created_at(public_queryset(v, p)))
  IN  [i \in 1..Len(ordered) |-> to_representation(ordered[i], v)]

\* every node of a serialized list, at every depth
RECURSIVE nodes(_)
nodes(data) ==
  UNION {{data[i]} \cup nodes(data[i].replies) : i \in DOMAIN data}

\* the ids of the comments a viewer receives for a post
thread(v, p) == {n.id : n \in nodes(list(v, p))}

(***************************************************************************)
(* Specifications.  Each one draws the actors and inputs of the requests   *)
(* from the small sets its claims are about, and stops creating rows at    *)
(* its bound.                                                              *)
(***************************************************************************)
Within(max_comments, max_interactions) ==
  Len(comments') <= max_comments /\ Len(interactions') <= max_interactions

\* Reading threads: members write comments, questions and replies, an admin
\* soft-deletes and restores them.  Responses are not recorded, so a refused
\* request changes nothing and the writes stop at the bound on comments.
ThreadAuthors == {"mem1", "mem2"}

InitThread == Init /\ atomic_requests = FALSE /\ response = UNOBSERVED

NextThread ==
  \/ /\ Len(comments) < MaxThreadComments
     /\ \E u \in ThreadAuthors, parent \in Ids(comments) \cup {0}, is_q \in BOOLEAN :
          create(u, "p1", "c1", parent, is_q)
  \/ /\ Len(comments) < MaxThreadComments
     /\ \E u \in ThreadAuthors, id \in Ids(comments), is_q \in BOOLEAN :
          reply(u, id, "c1", is_q)
  \/ \E id \in Ids(comments) : destroy("admin", id)
  \/ \E id \in Ids(comments) : restore("admin", id)

SpecThread == InitThread /\ [][NextThread]_vars

\* Answering: members ask, an admin and a moderator who does not own the
\* post reply, respond and set the status; a reply may raise part-way.
AnswerUsers == {"admin", "mod2", "mem1"}

InitAnswer == Init /\ response # UNOBSERVED

NextAnswer ==
  \/ \E is_q \in BOOLEAN :
       create("mem1", "p1", "c1", 0, is_q)
       /\ Within(MaxAnswerComments, MaxAnswerInteractions)
  \/ \E u \in AnswerUsers, id \in Ids(comments), is_q \in BOOLEAN :
       reply(u, id, "c2", is_q)
       /\ Within(MaxAnswerComments, MaxAnswerInteractions)
  \/ \E u \in AnswerUsers, id \in Ids(comments), k \in 1..3 :
       reply_raises(u, id, "c2", FALSE, k)
       /\ Within(MaxAnswerComments, MaxAnswerInteractions)
  \/ \E u \in AnswerUsers, iid \in Ids(interactions) :
       respond(u, iid, "c2")
       /\ Within(MaxAnswerComments, MaxAnswerInteractions)
  \/ \E u \in AnswerUsers, iid \in Ids(interactions),
        status \in {"ANSWERED", "CLOSED"} :
       update(u, iid, status, NULL)

SpecAnswer == InitAnswer /\ [][NextAnswer]_vars

\* Keeping the two tables in step: a member asks through either entry point,
\* an admin answers and moderates; responses are not recorded.
InitSync == Init /\ response = UNOBSERVED /\ atomic_requests = FALSE

NextSync ==
  \/ create("mem1", "p1", "c1", 0, TRUE)
       /\ Within(MaxSyncComments, MaxSyncInteractions)
  \/ \E u \in {"admin", "mem1"}, id \in Ids(comments), is_q \in BOOLEAN :
       reply(u, id, "c2", is_q)
       /\ Within(MaxSyncComments, MaxSyncInteractions)
  \/ interaction_create("mem1", "p1", "c1", TRUE, 0)
       /\ Within(MaxSyncComments, MaxSyncInteractions)
  \/ \E iid \in Ids(interactions) :
       respond("admin", iid, "c2")
       /\ Within(MaxSyncComments, MaxSyncInteractions)
  \/ \E u \in {"admin", "mem1"}, iid \in Ids(interactions),
        status \in {"ANSWERED", "CLOSED"} :
       update(u, iid, status, NULL)
  \/ \E u \in {"admin", "mem1"}, iid \in Ids(interactions) : flag(u, iid)
  \/ \E iid \in Ids(interactions) : hide("admin", iid)
  \/ \E iid \in Ids(interactions) : unhide("admin", iid)
  \/ \E iid \in Ids(interactions) : close("admin", iid)

SpecSync == InitSync /\ [][NextSync]_vars

\* Follow-up questions: a member and an admin ask, answer and ask again.
FollowupUsers == {"admin", "mem1"}

InitFollowup == Init /\ response # UNOBSERVED /\ atomic_requests = FALSE

NextFollowup ==
  \/ \E u \in FollowupUsers, is_q \in BOOLEAN :
       create(u, "p1", "c1", 0, is_q)
       /\ Within(MaxFollowupComments, MaxFollowupInteractions)
  \/ \E u \in FollowupUsers, id \in Ids(comments), is_q \in BOOLEAN :
       reply(u, id, "c2", is_q)
       /\ Within(MaxFollowupComments, MaxFollowupInteractions)
  \/ \E iid \in Ids(interactions) :
       respond("admin", iid, "c2")
       /\ Within(MaxFollowupComments, MaxFollowupInteractions)

SpecFollowup == InitFollowup /\ [][NextFollowup]_vars

\* Reactions on a post whose state changes: two members react with two of
\* the emojis and with one that is not in the map.
ReactUsers == {"mem1", "mem2"}

InitReact == Init /\ response # UNOBSERVED /\ atomic_requests = FALSE

NextReact ==
  \/ \E u \in ReactUsers, emoji \in {"thumbsup", "heart", "smile"} :
       react_to_post(u, "p1", emoji)
  \/ toggle_reactions("p1")
  \/ publish("p1")
  \/ unpublish("p1")
  \/ post_soft_delete("p1")

SpecReact == InitReact /\ [][NextReact]_vars

\* Comments on a post whose state changes: two members comment, ask and
\* reply.
GateUsers == {"mem1", "mem2"}

InitGate == Init /\ response # UNOBSERVED /\ atomic_requests = FALSE

NextGate ==
  \/ \E u \in GateUsers, is_q \in BOOLEAN :
       create(u, "p1", "c1", 0, is_q)
       /\ Within(MaxGateComments, MaxGateComments)
  \/ \E u \in GateUsers, id \in Ids(comments), is_q \in BOOLEAN :
       reply(u, id, "c1", is_q)
       /\ Within(MaxGateComments, MaxGateComments)
  \/ toggle_comments("p1")
  \/ publish("p1")
  \/ unpublish("p1")
  \/ post_soft_delete("p1")

SpecGate == InitGate /\ [][NextGate]_vars

(***************************************************************************)
(* Claims about reading threads.                                           *)
(***************************************************************************)
Unprivileged ==
  {ANON} \cup {u \in Users : UserRole(u) \notin {"ADMIN", "MODERATOR"}}

others_question(n, v) == n.is_question /\ n.user # v

\* the replies of obj that are not soft-deleted and are not questions of
\* somebody other than v
own_or_plain(obj, v) ==
  {i \in replies(comments, obj) :
     ~comments[i].is_deleted /\ ~others_question(comments[i], v)}

RECURSIVE depth(_)
depth(id) == IF comments[id].parent = 0 THEN 1 ELSE 1 + depth(comments[id].parent)

\* C5 as stated: a viewer who is anonymous or neither ADMIN nor MODERATOR
\* receives no question of another user: not in the top-level list, not in a
\* nested reply list at any depth, not in a reply_count, whoever owns the
\* ancestors.
C5_NoOthersQuestions ==
  \A v \in Unprivileged : \A p \in Posts : \A n \in nodes(list(v, p)) :
    /\ ~others_question(n, v)
    /\ n.reply_count = Cardinality(own_or_plain(n.id, v))

\* C5 amended: such a viewer receives no question of another user in the
\* top-level list, nor in the reply list or the reply_count of a node the
\* viewer did not author; under a node the viewer authored every reply that
\* is not soft-deleted is listed and counted, questions of others included.
C5_NoOthersQuestionsUnderOthers ==
  \A v \in Unprivileged : \A p \in Posts : \A n \in nodes(list(v, p)) :
    /\ n.parent = 0 => ~others_question(n, v)
    /\ n.user # v =>
         /\ \A i \in DOMAIN n.replies : ~others_question(n.replies[i], v)
         /\ n.reply_count = Cardinality(own_or_plain(n.id, v))
    /\ n.user = v =>
         /\ {n.replies[i].id : i \in DOMAIN n.replies}
              = {i \in replies(comments, n.id) : ~comments[i].is_deleted}
         /\ n.reply_count
              = Cardinality({i \in replies(comments, n.id) : ~comments[i].is_deleted})

\* a question three levels deep is withheld from a viewer who receives its
\* parent and did not write the question
C5_Witness ==
  \E v \in Unprivileged : \E c \in Ids(comments) :
    /\ others_question(comments[c], v)
    /\ ~comments[c].is_deleted
    /\ depth(c) >= 3
    /\ comments[c].parent \in thread(v, comments[c].post)
    /\ c \notin thread(v, comments[c].post)

RECURSIVE subtree(_)
subtree(id) == {id} \cup UNION {subtree(i) : i \in replies(comments, id)}

\* C6: the author of a question receives the question and every reply in its
\* subtree, whatever the status, the roles and the authors.
C6_SelfVisibility ==
  \A q \in Ids(comments) :
    comments[q].is_question =>
      subtree(q) \subseteq thread(comments[q].user, comments[q].post)

\* C7: soft-deleting a comment removes no node from any viewer's thread and
\* lowers no reply_count.
C7_SoftDeleteKeepsPosition ==
  [][(\E d \in Ids(comments) :
        /\ ~comments[d].is_deleted
        /\ comments' = soft_delete(comments, d, comments'[d].deleted_by))
     => \A v \in Users \cup {ANON} : \A p \in Posts :
          /\ thread(v, p) \subseteq thread(v, p)'
          /\ \A id \in thread(v, p) : get_reply_count(id, v)' >= get_reply_count(id, v)
    ]_vars

\* C8: whoever asks, a soft-deleted comment is serialized with the fixed
\* removal text instead of its stored content, and a comment that is not
\* deleted is serialized with its stored content.
C8_ContentMasking ==
  \A v \in Viewers : \A id \in Ids(comments) :
    \A n \in nodes(<<to_representation(id, v)>>) :
      /\ comments[n.id].is_deleted =>
           n.content = "This comment has been removed by moderation."
           /\ n.content # comments[n.id].content
      /\ ~comments[n.id].is_deleted => n.content = comments[n.id].content

\* a soft-deleted comment is served to a member and to an anonymous viewer
C8_Witness ==
  \E id \in Ids(comments) :
    /\ comments[id].is_deleted
    /\ id \in thread("mem2", comments[id].post) \cap thread(ANON, comments[id].post)

(***************************************************************************)
(* Claims about the question lifecycle and the two tables.                 *)
(***************************************************************************)
Correlated(q) ==
  CorrelatedInteractions(interactions, comments[q].post, comments[q].user,
                         comments[q].content)

\* the request just served was a reply to comment q by user u
Replied(u, q) ==
  /\ response'.op = "reply" /\ response'.user = u /\ response'.id = q
  /\ response'.status \in {201, 500}

\* C1: when an ADMIN replies to an OPEN question whose Interaction exists,
\* the question and the Interaction end ANSWERED by that admin, and in every
\* outcome of the request, a failure after the Comment write included, the
\* Comment and the Interaction have both changed or neither has.
C1_AnswerTransition ==
  [][\A q \in Ids(comments) : \A a \in Users :
       ( /\ UserRole(a) = "ADMIN"
         /\ Replied(a, q)
         /\ comments[q].is_question /\ comments[q].question_status = "OPEN"
         /\ Correlated(q) # {}
         /\ \A i \in Correlated(q) : interactions[i].status = "OPEN" )
       => /\ response'.status = 201 =>
               /\ comments'[q].question_status = "ANSWERED"
               /\ comments'[q].answered_by = a
               /\ \A i \in Correlated(q) :
                    /\ interactions'[i].status = "ANSWERED"
                    /\ interactions'[i].responded_by = a
          /\ \A i \in Correlated(q) :
               (comments'[q] # comments[q]) <=> (interactions'[i] # interactions[i])
    ]_vars

\* C2: every question Interaction that is ANSWERED has a question Comment
\* with the same post, user and content that is ANSWERED.
C2_DualTable ==
  \A i \in Ids(interactions) :
    (interactions[i].is_question /\ interactions[i].status = "ANSWERED")
    => \E q \in CorrelatedComments(comments, interactions[i].post,
                                   interactions[i].user, interactions[i].content) :
         comments[q].question_status = "ANSWERED"

\* the reply just served was a follow-up question of user u on u's own
\* question q, which has an Interaction
FollowedUp(u, q) ==
  /\ response'.op = "reply" /\ response'.user = u /\ response'.id = q
  /\ response'.status = 201
  /\ comments'[Len(comments')].is_question
  /\ comments[q].is_question /\ comments[q].user = u
  /\ Correlated(q) # {}

Reopened(q, i) ==
  /\ comments'[q].question_status = "OPEN"
  /\ comments'[q].answered_by = NULL /\ comments'[q].answered_at = NULL
  /\ interactions'[i].status = "OPEN"
  /\ interactions'[i].responded_by = NULL /\ interactions'[i].responded_at = NULL
  /\ Len(interactions') = Len(interactions)

\* C3: a follow-up question of the asker, of any role, on the asker's own
\* question leaves the question and its Interaction OPEN with the responder
\* cleared and creates no Interaction, whether the question was ANSWERED or
\* OPEN.
C3_ReopenAnyRole ==
  [][\A q \in Ids(comments) : \A u \in Users :
       FollowedUp(u, q) => \E i \in Correlated(q) : Reopened(q, i)
    ]_vars

\* C4: a question Comment or question Interaction becomes ANSWERED only by a
\* request of an ADMIN or of a MODERATOR who authored the question's post.
C4_ModeratorScope ==
  [][( \/ \E q \in Ids(comments) :
            /\ comments[q].is_question
            /\ comments[q].question_status # "ANSWERED"
            /\ comments'[q].question_status = "ANSWERED"
       \/ \E i \in Ids(interactions) :
            /\ interactions[i].is_question
            /\ interactions[i].status # "ANSWERED"
            /\ interactions'[i].status = "ANSWERED" )
     => \/ UserRole(response'.user) = "ADMIN"
        \/ /\ UserRole(response'.user) = "MODERATOR"
           /\ author_id(response'.post) = response'.user
    ]_vars

(***************************************************************************)
(* Claims about the gates on writes.                                       *)
(***************************************************************************)
\* the step serves a request of the given kind (the steps of post management
\* leave the response as it was)
Request(op) == response'.op = op /\ posts' = posts

\* C9: a react request on a post that is unpublished, deleted or has
\* reactions disabled fails with an error and leaves the Reaction table as it
\* was.
C9_GatedReactions ==
  [][( /\ Request("react")
       /\ \/ ~posts[response'.post].is_published
          \/ posts[response'.post].is_deleted
          \/ ~posts[response'.post].reactions_enabled )
     => /\ response'.status = 400
        /\ response'.error \in {UNPUBLISHED, REACTIONS_DISABLED, POST_DELETED}
        /\ reactions' = reactions
    ]_vars

\* a react request was refused on a published post with reactions disabled
\* where the user already has a reaction
C9_Witness ==
  /\ response.op = "react" /\ response.error = REACTIONS_DISABLED
  /\ posts[response.post].is_published
  /\ ~posts[response.post].reactions_enabled
  /\ \E r \in reactions : r.post = response.post /\ r.user = response.user

Disabled(text) == text = "Comments are disabled for this post."

\* C10 as stated: a create or reply request on a post with comments disabled
\* is refused with the message that comments are disabled and writes no
\* Comment and no Interaction row.
C10_GatedComments ==
  [][( /\ Request("create") \/ Request("reply")
       /\ ~posts[response'.post].comments_enabled )
     => /\ response'.status >= 400
        /\ Disabled(response'.error)
        /\ comments' = comments /\ interactions' = interactions
    ]_vars

\* C10 amended: a create request, and a reply request on a parent that the
\* requester may fetch, is refused with the message that comments are
\* disabled; a reply to a parent withheld from the requester (a question of
\* another user, for a requester who is neither ADMIN nor MODERATOR) is
\* refused as not found; in every case no Comment and no Interaction row is
\* written.
C10_GatedCommentsFetched ==
  [][( /\ Request("create") \/ Request("reply")
       /\ ~posts[response'.post].comments_enabled )
     => /\ response'.status >= 400
        /\ IF response'.op = "reply"
              /\ others_question(comments[response'.id], response'.user)
              /\ UserRole(response'.user) \notin {"ADMIN", "MODERATOR"}
           THEN response'.status = 404
           ELSE Disabled(response'.error)
        /\ comments' = comments /\ interactions' = interactions
    ]_vars

\* a reply was refused because comments are disabled, and the comment it
\* addressed is still stored
C10_Witness ==
  /\ response.op = "reply" /\ Disabled(response.error)
  /\ response.id \in Ids(comments)
  /\ ~posts[response.post].comments_enabled

(***************************************************************************)
(* The enable flags over time.                                             *)
(***************************************************************************)
MaxToggleComments == 2

\* A member comments and reacts on a post whose two flags are toggled.
InitToggle == Init /\ response # UNOBSERVED /\ atomic_requests = FALSE

NextToggle ==
  \/ create("mem1", "p1", "c1", 0, FALSE)
       /\ Within(MaxToggleComments, MaxToggleComments)
  \/ \E emoji \in {"thumbsup", "heart", "smile"} : react_to_post("mem1", "p1", emoji)
  \/ toggle_comments("p1")
  \/ toggle_reactions("p1")

SpecToggle == InitToggle /\ [][NextToggle]_vars

\* C11: on a published post that is not deleted, a well-formed create-comment
\* request succeeds exactly when comments_enabled is true at the time of the
\* request and a well-formed react request succeeds exactly when
\* reactions_enabled is true at that time, whatever toggles came before.
C11_FlagsGateByCurrentValue ==
  [][( /\ Request("create") \/ Request("react")
       /\ posts[response'.post].is_published
       /\ ~posts[response'.post].is_deleted
       /\ response'.error # INVALID )
     => /\ response'.op = "create" =>
             (response'.status = 201 <=> posts[response'.post].comments_enabled)
        /\ response'.op = "react" =>
             (response'.status \in {200, 201}
                <=> posts[response'.post].reactions_enabled)
    ]_vars

\* a comment was created while the flag was on, the flag was turned off, and
\* the next create request was refused
C11_Witness ==
  /\ response.op = "create" /\ response.status = 403
  /\ ~posts[response.post].comments_enabled
  /\ Len(comments) >= 1

(***************************************************************************)
(* Claims about the reaction toggle.                                       *)
(***************************************************************************)
PassesPreconditions(p) ==
  posts[p].is_published /\ posts[p].reactions_enabled /\ ~posts[p].is_deleted

\* the rows of the Reaction table that are not of user u on post p
others_reactions(rs, p, u) == {r \in rs : r.post # p \/ r.user # u}

\* C12: on a post that passes the preconditions, react(post, user, t)
\* creates a row and reports created when the user has no reaction on the
\* post, deletes the row and reports removed when the user's reaction has
\* type t, and changes the type of the user's row to t, keeping the row, and
\* reports updated when it has another type; the rows of other users stay as
\* they were.
C12_ToggleResult ==
  [][\A u \in Users : \A p \in Posts : \A emoji \in Emojis :
       (react_to_post(u, p, emoji) /\ PassesPreconditions(p))
       => LET t == EMOJI_MAP(emoji)
              mine == existing_reaction(p, u)
          IN  /\ mine = {} =>
                   /\ response'.status = 201
                   /\ response'.error = "Reaction created"
                   /\ \E r \in reactions' \ reactions :
                        /\ r.post = p /\ r.user = u /\ r.reaction_type = t
                        /\ reactions' = reactions \cup {r}
              /\ (\E r \in mine : r.reaction_type = t) =>
                   /\ response'.status = 200
                   /\ response'.error = "Reaction removed"
                   /\ reactions' = reactions \ mine
              /\ (mine # {} /\ \A r \in mine : r.reaction_type # t) =>
                   /\ response'.status = 200
                   /\ response'.error = "Reaction updated"
                   /\ \E r \in mine : \E changed \in reactions' :
                        /\ changed.id = r.id /\ changed.reaction_type = t
                        /\ changed.post = p /\ changed.user = u
                        /\ reactions' = (reactions \ {r}) \cup {changed}
              /\ others_reactions(reactions', p, u) = others_reactions(reactions, p, u)
    ]_vars

\* a member's reaction was changed to another type while another member's
\* reaction is stored on the same post
C12_Witness ==
  /\ response.op = "react" /\ response.error = "Reaction updated"
  /\ \E r \in reactions : r.post = response.post /\ r.user = response.user
  /\ \E r \in reactions : r.post = response.post /\ r.user # response.user

\* the rows of user u on post p, and their types
rows_of(rs, p, u) == {r \in rs : r.post = p /\ r.user = u}

types_of(rs, p, u) == {r.reaction_type : r \in rows_of(rs, p, u)}

\* the step is a react request of u on p with the emoji, on a post that
\* passes the preconditions
Reacts(u, p, emoji) ==
  /\ response'.op = "react" /\ response'.user = u /\ response'.post = p
  /\ PassesPreconditions(p) /\ posts' = posts
  /\ react_to_post(u, p, emoji)

\* the links of the cycle: LIKE on no reaction is created, LIKE on a LIKE is
\* removed, LOVE on a LIKE is updated
Cycle(u, p) ==
  /\ (Reacts(u, p, "thumbsup") /\ types_of(reactions, p, u) = {})
       => /\ response'.error = "Reaction created"
          /\ types_of(reactions', p, u) = {"LIKE"}
  /\ (Reacts(u, p, "thumbsup") /\ types_of(reactions, p, u) = {"LIKE"})
       => response'.error = "Reaction removed"
  /\ (Reacts(u, p, "heart") /\ types_of(reactions, p, u) = {"LIKE"})
       => /\ response'.error = "Reaction updated"
          /\ types_of(reactions', p, u) = {"LOVE"}

\* C13 as stated: LIKE, LIKE, LIKE from no reaction returns created, removed,
\* created, a following LOVE returns updated, and exactly one Reaction row of
\* the user on the post exists after every call of the sequence.
C13_ToggleCycleOneRow ==
  [][\A u \in Users : \A p \in Posts :
       /\ Cycle(u, p)
       /\ \A emoji \in {"thumbsup", "heart"} :
            Reacts(u, p, emoji) => Cardinality(rows_of(reactions', p, u)) = 1
    ]_vars

\* C13 amended: the same results, with one row of the user on the post after
\* created and after updated, none after removed, and never more than one.
C13_ToggleCycleAtMostOneRow ==
  [][\A u \in Users : \A p \in Posts :
       /\ Cycle(u, p)
       /\ \A emoji \in {"thumbsup", "heart"} :
            Reacts(u, p, emoji) =>
              /\ Cardinality(rows_of(reactions, p, u)) <= 1
              /\ Cardinality(rows_of(reactions', p, u))
                   = IF response'.error = "Reaction removed" THEN 0 ELSE 1
    ]_vars

\* a LIKE of a member was changed to LOVE and is the member's one row
C13_Witness ==
  /\ response.op = "react" /\ response.error = "Reaction updated"
  /\ types_of(reactions, response.post, response.user) = {"LOVE"}
  /\ Cardinality(rows_of(reactions, response.post, response.user)) = 1

(***************************************************************************)
(* Claims about the writes to the two tables.                              *)
(***************************************************************************)
\* the step is a successful creation of a question by u on p, through the
\* comment endpoint or through the interaction endpoint
Asked(u, p, content) ==
  /\ \/ create(u, p, content, 0, TRUE)
     \/ interaction_create(u, p, content, TRUE, 0)
  /\ comments' # comments \/ interactions' # interactions

\* C14: every successful creation of a question, through either entry
\* point, leaves exactly one new Comment that is an OPEN question and exactly
\* one new Interaction of type QUESTION that is an OPEN question, the two
\* with the same post, user and content.
C14_AskWritesBoth ==
  [][\A u \in Users : \A p \in Posts : \A content \in {"c1", "c2"} :
       Asked(u, p, content)
       => /\ Len(comments') = Len(comments) + 1
          /\ Len(interactions') = Len(interactions) + 1
          /\ LET c == comments'[Len(comments')]
                 i == interactions'[Len(interactions')]
             IN  /\ c.is_question /\ c.question_status = "OPEN"
                 /\ i.type = "QUESTION" /\ i.is_question /\ i.status = "OPEN"
                 /\ c.post = p /\ c.user = u /\ c.content = content
                 /\ i.post = p /\ i.user = u /\ i.content = content
    ]_vars

\* the Comment rows with the correlation key of Interaction row i
CommentsOf(cs, i) == CorrelatedComments(cs, i.post, i.user, i.content)

\* the Interaction rows with the correlation key of Comment row c
InteractionsOf(is, c) == CorrelatedInteractions(is, c.post, c.user, c.content)

\* C15: a mirrored write (respond, hide, unhide, answer by reply, follow-up
\* of the asker) that finds no row with the correlation key in the other
\* table still succeeds, and afterwards the other table holds a row with
\* that key.
C15_CorrelationMissFallback ==
  [][/\ \A u \in Users : \A iid \in Ids(interactions) :
          ( /\ interactions[iid].is_question
            /\ CommentsOf(comments, interactions[iid]) = {}
            /\ \/ \E content \in {"c1", "c2"} :
                    respond(u, iid, content) /\ iid \in interaction_queryset(u)
                    /\ check_response_permission(u, interactions[iid])
               \/ hide(u, iid) /\ UserRole(u) = "ADMIN"
               \/ unhide(u, iid) /\ UserRole(u) = "ADMIN" )
          => /\ interactions' # interactions
             /\ CommentsOf(comments', interactions[iid]) # {}
     /\ \A u \in Users : \A id \in Ids(comments) : \A is_q \in BOOLEAN :
          ( /\ comments[id].is_question
            /\ InteractionsOf(interactions, comments[id]) = {}
            /\ \E content \in {"c1", "c2"} :
                 reply(u, id, content, is_q)
                 /\ reply_response(u, id, content).status = 201
            /\ \/ UserRole(u) \in {"ADMIN", "MODERATOR"}
               \/ is_q /\ comments[id].user = u )
          => /\ Len(comments') = Len(comments) + 1
             /\ InteractionsOf(interactions', comments[id]) # {}
    ]_vars

(***************************************************************************)
(* Claims about the lifecycle of an Interaction.                           *)
(***************************************************************************)
\* C16: a question Interaction whose status is CLOSED keeps that status in
\* every later state, whatever operation follows.
C16_ClosedIsTerminal ==
  [][\A i \in Ids(interactions) :
       (interactions[i].is_question /\ interactions[i].status = "CLOSED")
       => interactions'[i].status = "CLOSED"
    ]_vars

MaxReviewInteractions == 3

\* Moderating questions asked through the interaction endpoint: a member
\* asks and flags, an admin responds, flags, reviews and closes; responses
\* are not recorded.
InitReview == Init /\ response = UNOBSERVED /\ atomic_requests = FALSE

NextReview ==
  \/ interaction_create("mem1", "p1", "c1", TRUE, 0)
       /\ Within(0, MaxReviewInteractions)
  \/ \E iid \in Ids(interactions) :
       respond("admin", iid, "c2") /\ Within(0, MaxReviewInteractions)
  \/ \E u \in {"admin", "mem1"}, iid \in Ids(interactions) : flag(u, iid)
  \/ \E iid \in Ids(interactions) : mark_reviewed("admin", iid)
  \/ \E iid \in Ids(interactions) : close("admin", iid)
  \/ \E iid \in Ids(interactions), status \in {"ANSWERED", "CLOSED", "ACTIONED"} :
       update("admin", iid, status, NULL)

SpecReview == InitReview /\ [][NextReview]_vars

QuestionStatuses == {"OPEN", "ANSWERED", "CLOSED"}

ReviewStatuses == {"PENDING", "REVIEWED", "ACTIONED"}

\* the step flags row i, or marks it reviewed
Moderated(i) ==
  \/ ~interactions[i].is_flagged /\ interactions'[i].is_flagged
  \/ interactions[i].status # "REVIEWED" /\ interactions'[i].status = "REVIEWED"

\* C17: flagging a question Interaction or marking it reviewed leaves its
\* question status as it was, and answering, reopening or closing a flagged
\* Interaction leaves its review status a review status.
C17_IndependentDimensions ==
  [][\A i \in Ids(interactions) :
       /\ ( /\ interactions[i].is_question
            /\ interactions[i].status \in QuestionStatuses
            /\ Moderated(i) )
          => interactions'[i].status = interactions[i].status
       /\ ( /\ interactions[i].is_flagged
            /\ interactions[i].status \in ReviewStatuses
            /\ ~Moderated(i) )
          => interactions'[i].status \in ReviewStatuses
    ]_vars

\* after the step row iid has is_hidden = value, every Comment with its
\* correlation key has is_deleted = value and is otherwise as it was, and
\* every other row of both tables is as it was
Mirrored(iid, value) ==
  /\ interactions' = [interactions EXCEPT ![iid] = [@ EXCEPT !.is_hidden = value]]
  /\ Len(comments') = Len(comments)
  /\ \A c \in Ids(comments) :
       IF c \in CommentsOf(comments, interactions[iid])
       THEN comments'[c] = [comments[c] EXCEPT !.is_deleted = value]
       ELSE comments'[c] = comments[c]

comment_flag(u, id) ==
  IF ~IsModerator(u)
  THEN Reject(Response("comment_flag", u, comments[id].post, id, 403, "permission denied"))
  ELSE IF comments[id].is_deleted
  THEN Reject(Response("comment_flag", u, comments[id].post, id, 404, NOT_FOUND))
  ELSE Commit(<< <<[comments EXCEPT ![id] = [@ EXCEPT !.is_flagged = TRUE]],
                   interactions>> >>,
              Response("comment_flag", u, comments[id].post, id, 200, NULL))

comment_unflag(u, id) ==
  IF ~IsModerator(u)
  THEN Reject(Response("comment_unflag", u, comments[id].post, id, 403, "permission denied"))
  ELSE IF comments[id].is_deleted
  THEN Reject(Response("comment_unflag", u, comments[id].post, id, 404, NOT_FOUND))
  ELSE Commit(<< <<[comments EXCEPT ![id] = [@ EXCEPT !.is_flagged = FALSE]],
                   interactions>> >>,
              Response("comment_unflag", u, comments[id].post, id, 200, NULL))

MaxFlagComments == 2

\* Flagging through both entry points: members ask and comment, a member and
\* an admin flag Interactions, an admin flags and unflags Comments;
\* responses are not recorded.
InitFlag == Init /\ response = UNOBSERVED /\ atomic_requests = FALSE

NextFlag ==
  \/ /\ Len(comments) < MaxFlagComments
     /\ \E u \in {"mem1", "mem2"}, content \in {"c1", "c2"}, is_q \in BOOLEAN :
          create(u, "p1", content, 0, is_q)
  \/ \E u \in {"admin", "mem1"}, iid \in Ids(interactions) : flag(u, iid)
  \/ \E id \in Ids(comments) : comment_flag("admin", id)
  \/ \E id \in Ids(comments) : comment_unflag("admin", id)

SpecFlag == InitFlag /\ [][NextFlag]_vars

\* C19: a question Comment and a question Interaction with the same post,
\* user and content agree on being flagged, in every reachable state.
C19_FlagMirrored ==
  \A q \in Ids(comments) :
    comments[q].is_question =>
      \A i \in InteractionsOf(interactions, comments[q]) :
        comments[q].is_flagged = interactions[i].is_flagged

(***************************************************************************)
(* MemberCommentViewSet is a ModelViewSet that overrides only create and   *)
(* adds reply, so DELETE /comments/{id}/ runs the inherited destroy: the   *)
(* object is looked up in get_queryset() (the caller's own comments, 404   *)
(* otherwise) and instance.delete() removes the row, together with every   *)
(* reply below it (Comment.parent is on_delete=CASCADE).  Ids are never    *)
(* reused, so a removed row leaves its slot of the table holding GONE.     *)
(***************************************************************************)
GONE == [gone |-> TRUE]

Rows(cs) == {id \in Ids(cs) : cs[id] # GONE}

RECURSIVE cascade(_, _)
cascade(cs, id) ==
  {id} \cup UNION {cascade(cs, i) : i \in {j \in Rows(cs) : cs[j].parent = id}}

delete(cs, id) ==
  LET removed == cascade(cs, id)
  IN  [i \in Ids(cs) |-> IF i \in removed THEN GONE ELSE cs[i]]

member_destroy(u, id) ==
  IF ~is_authenticated(u)
  THEN Reject(Response("destroy", u, NULL, id, 401, "not authenticated"))
  ELSE IF id \notin Rows(comments) \/ comments[id].user # u
  THEN Reject(Response("destroy", u, NULL, id, 404, NOT_FOUND))
  ELSE Commit(<< <<delete(comments, id), interactions>> >>,
              Response("destroy", u, comments[id].post, id, 204, NULL))

MaxDeleteComments == 3

\* The comment endpoints that write: two members comment and reply, each
\* may DELETE any comment id, an admin removes and restores comments;
\* responses are not recorded.
InitDelete == Init /\ response = UNOBSERVED /\ atomic_requests = FALSE

NextDelete ==
  \/ /\ Len(comments) < MaxDeleteComments
     /\ \E u \in {"mem1", "mem2"}, parent \in Rows(comments) \cup {0} :
          create(u, "p1", "c1", parent, FALSE)
  \/ \E u \in {"mem1", "mem2"}, id \in Ids(comments) : member_destroy(u, id)
  \/ \E id \in Rows(comments) : destroy("admin", id)
  \/ \E id \in Rows(comments) : restore("admin", id)

SpecDelete == InitDelete /\ [][NextDelete]_vars

\* C20: no step of the comment endpoints removes a Comment row (every row
\* present before a step is present after it), and a moderation removal
\* changes nothing of the table but is_deleted, deleted_at and deleted_by of
\* the removed comment.
C20_NeverHardDeleted ==
  [][/\ \A id \in Rows(comments) : id \in Rows(comments')
     /\ \A id \in Rows(comments) :
          destroy("admin", id) =>
            /\ \A other \in Rows(comments) \ {id} : comments'[other] = comments[other]
            /\ comments'[id] =
                 [comments[id] EXCEPT !.is_deleted = comments'[id].is_deleted,
                                      !.deleted_at = comments'[id].deleted_at,
                                      !.deleted_by = comments'[id].deleted_by]]_vars

MaxHideComments == 2
MaxHideInteractions == 2

\* Hiding and unhiding: two members comment and ask through the comment
\* endpoint, a member asks through the interaction endpoint (no Comment is
\* written), an admin removes comments, hides and unhides Interactions;
\* responses are not recorded.
InitHide == Init /\ response = UNOBSERVED /\ atomic_requests = FALSE

NextHide ==
  \/ \E u \in {"mem1", "mem2"}, is_q \in BOOLEAN :
       create(u, "p1", "c1", 0, is_q)
       /\ Within(MaxHideComments, MaxHideInteractions)
  \/ interaction_create("mem1", "p1", "c1", TRUE, 0)
       /\ Within(MaxHideComments, MaxHideInteractions)
  \/ \E id \in Ids(comments) : destroy("admin", id)
  \/ \E iid \in Ids(interactions) : hide("admin", iid)
  \/ \E iid \in Ids(interactions) : unhide("admin", iid)

SpecHide == InitHide /\ [][NextHide]_vars

\* C21: every Comment written by a step with a parent has the post of that
\* parent, and the parent is not soft-deleted in the state the step starts
\* from (create with a parent, reply and respond are the steps that write
\* such a Comment).
C21_ReplyInvariants ==
  [][\A c \in Ids(comments') \ Ids(comments) :
       comments'[c].parent # 0 =>
         /\ comments'[c].parent \in Ids(comments)
         /\ comments'[c].post = comments[comments'[c].parent].post
         /\ ~comments[comments'[c].parent].is_deleted]_vars

MaxPermComments == 1
MaxPermInteractions == 1

\* Requests of every role on the moderation endpoints: a member asks through
\* either endpoint and posts a plain interaction, an admin flags; every
\* user may respond, close, hide, unhide and mark reviewed; responses are
\* recorded.
PermUsers == {"admin", "mod2", "mem1", "mem2"}

InitPerm == Init /\ response # UNOBSERVED /\ atomic_requests = FALSE

NextPerm ==
  \/ create("mem1", "p1", "c1", 0, TRUE)
       /\ Within(MaxPermComments, MaxPermInteractions)
  \/ \E is_q \in BOOLEAN :
       interaction_create("mem1", "p1", "c1", is_q, 0)
       /\ Within(MaxPermComments, MaxPermInteractions)
  \/ \E iid \in Ids(interactions) : flag("admin", iid)
  \/ \E u \in PermUsers, iid \in Ids(interactions) :
       respond(u, iid, "c2")
       /\ Within(MaxPermComments, MaxPermInteractions)
  \/ \E u \in PermUsers, iid \in Ids(interactions) : close(u, iid)
  \/ \E u \in PermUsers, iid \in Ids(interactions) : hide(u, iid)
  \/ \E u \in PermUsers, iid \in Ids(interactions) : unhide(u, iid)
  \/ \E u \in PermUsers, iid \in Ids(interactions) : mark_reviewed(u, iid)

SpecPerm == InitPerm /\ [][NextPerm]_vars

\* the step is a respond or close request of a user who is neither ADMIN nor
\* a MODERATOR authoring the post of the Interaction, or a hide, unhide or
\* mark_reviewed request of a user who is not ADMIN
PermissionFailure ==
  \/ /\ response'.op \in {"respond", "close"}
     /\ UserRole(response'.user) # "ADMIN"
     /\ ~(UserRole(response'.user) = "MODERATOR"
          /\ author_id(interactions[response'.id].post) = response'.user)
  \/ /\ response'.op \in {"hide", "unhide", "mark_reviewed"}
     /\ UserRole(response'.user) # "ADMIN"

NoSideEffects == comments' = comments /\ interactions' = interactions

\* the status the handlers give to such a request: the lookup in the
\* caller's queryset and the question check of respond come before the
\* permission check of respond and close
PermissionFailureStatus ==
  IF response'.op \in {"hide", "unhide", "mark_reviewed"} THEN 403
  ELSE IF response'.id \notin interaction_queryset(response'.user) THEN 404
  ELSE IF response'.op = "respond" /\ ~interactions[response'.id].is_question THEN 400
  ELSE 403

\* C22 (as stated): a request that fails the permission rule is answered
\* with 403 and changes no Comment or Interaction row and creates none.
C22_PermissionFailure403 ==
  [][PermissionFailure => (response'.status = 403 /\ NoSideEffects)]_vars

\* C22 (amended): a request that fails the permission rule changes no
\* Comment or Interaction row and creates none, and is answered with an
\* error: 404 when respond or close addresses an Interaction outside the
\* caller's queryset, 400 when respond addresses an Interaction of the
\* caller's queryset that is not a question, 403 otherwise.
C22_PermissionFailureNoEffect ==
  [][PermissionFailure =>
       (response'.status = PermissionFailureStatus /\ NoSideEffects)]_vars

\* a member was refused a hide of their own question with 403 while both
\* tables hold rows
C22_Witness ==
  /\ response.op = "hide" /\ response.status = 403
  /\ UserRole(response.user) = "MEMBER"
  /\ response.id \in Ids(interactions)
  /\ interactions[response.id].user = response.user
  /\ ~interactions[response.id].is_hidden
  /\ comments # <<>>

MaxWriteComments == 2
MaxWriteInteractions == 2

\* Every entry point that creates a row, against a post whose flags change:
\* a member comments, replies and creates interactions, an admin responds,
\* and the post is toggled, unpublished, published and soft-deleted;
\* responses are not recorded.
InitWrite == Init /\ response = UNOBSERVED /\ atomic_requests = FALSE

NextWrite ==
  \/ \E is_q \in BOOLEAN :
       create("mem1", "p1", "c1", 0, is_q)
       /\ Within(MaxWriteComments, MaxWriteInteractions)
  \/ \E id \in Ids(comments) :
       reply("mem1", id, "c2", FALSE)
       /\ Within(MaxWriteComments, MaxWriteInteractions)
  \/ \E is_q \in BOOLEAN :
       interaction_create("mem1", "p1", "c1", is_q, 0)
       /\ Within(MaxWriteComments, MaxWriteInteractions)
  \/ \E iid \in Ids(interactions) :
       respond("admin", iid, "c2")
       /\ Within(MaxWriteComments, MaxWriteInteractions)
  \/ toggle_comments("p1")
  \/ publish("p1")
  \/ unpublish("p1")
  \/ post_soft_delete("p1")

SpecWrite == InitWrite /\ [][NextWrite]_vars

\* the post accepts writes: published, not soft-deleted, comments enabled
Writable(p) ==
  posts[p].is_published /\ ~posts[p].is_deleted /\ posts[p].comments_enabled

\* C23: a step that creates a Comment or an Interaction row creates it on a
\* post that is published, not soft-deleted and has comments enabled in the
\* state the step starts from.
C23_PostGatesWrites ==
  [][/\ \A c \in Ids(comments') \ Ids(comments) : Writable(comments'[c].post)
     /\ \A i \in Ids(interactions') \ Ids(interactions) :
          Writable(interactions'[i].post)]_vars

(***************************************************************************)
(* A failure of the audit write.  Every mutating handler ends with         *)
(* AuditLog.objects.create(...) outside any try block, after its last      *)
(* write to the tables: when that statement raises, the request ends with  *)
(* a server error, and its earlier writes stay unless the request runs in  *)
(* a transaction (ATOMIC_REQUESTS, set for PostgreSQL only).               *)
(***************************************************************************)
AUDIT_FAILED == "audit log failed"

create_audit_fails(u, p, content, parent, is_q) ==
  IF posts[p].comments_enabled /\ CommentCreate_is_valid(p, content, parent)
  THEN LET steps == create_steps(u, p, content, parent, is_q)
       IN  Raise(steps, Len(steps) - 1,
                 Response("create", u, p, 0, 500, AUDIT_FAILED))
  ELSE FALSE

reply_audit_fails(u, id, content, is_q) ==
  /\ reply_response(u, id, content).status = 201
  /\ LET steps == reply_steps(u, id, content, is_q)
     IN  Raise(steps, Len(steps) - 1,
               Response("reply", u, comments[id].post, id, 500, AUDIT_FAILED))

destroy_audit_fails(u, id) ==
  /\ IsModerator(u)
  /\ ~comments[id].is_deleted
  /\ Raise(<< <<soft_delete(comments, id, u), interactions>>,
              <<soft_delete(comments, id, u), interactions>> >>, 1,
           Response("destroy", u, comments[id].post, id, 500, AUDIT_FAILED))

restore_audit_fails(u, id) ==
  /\ IsModerator(u)
  /\ comments[id].is_deleted
  /\ LET restored == [comments EXCEPT ![id] =
                        [@ EXCEPT !.is_deleted = FALSE, !.deleted_at = NULL,
                                  !.deleted_by = NULL]]
     IN  Raise(<< <<restored, interactions>>, <<restored, interactions>> >>, 1,
               Response("restore", u, comments[id].post, id, 500, AUDIT_FAILED))

react_audit_fails(u, p, emoji) ==
  LET resp == react_response(u, p, emoji)
      mine == existing_reaction(p, u)
      updated == {[r EXCEPT !.reaction_type = EMOJI_MAP(emoji), !.emoji = emoji] :
                    r \in mine}
      created == Reaction(new_reaction_id, p, u, EMOJI_MAP(emoji), emoji)
      written == IF resp.error = "Reaction removed" THEN reactions \ mine
                 ELSE IF resp.error = "Reaction updated"
                 THEN (reactions \ mine) \cup updated
                 ELSE reactions \cup {created}
  IN  /\ resp.status \in {200, 201}
      /\ Returns(Response("react", u, p, 0, 500, AUDIT_FAILED))
      /\ reactions' = IF atomic_requests THEN reactions ELSE written
      /\ UNCHANGED <<posts, comments, interactions, atomic_requests, inflight>>

MaxAuditComments == 2
MaxAuditInteractions == 2

\* Mutating requests whose audit write succeeds or fails, on either
\* database configuration: a member comments, asks and reacts, an admin
\* replies, removes and restores; responses are recorded.
InitAudit == Init /\ response # UNOBSERVED

NextAudit ==
  \/ \E is_q \in BOOLEAN :
       create("mem1", "p1", "c1", 0, is_q)
       /\ Within(MaxAuditComments, MaxAuditInteractions)
  \/ \E is_q \in BOOLEAN :
       create_audit_fails("mem1", "p1", "c1", 0, is_q)
       /\ Within(MaxAuditComments, MaxAuditInteractions)
  \/ \E id \in Ids(comments) :
       reply("admin", id, "c2", FALSE)
       /\ Within(MaxAuditComments, MaxAuditInteractions)
  \/ \E id \in Ids(comments) :
       reply_audit_fails("admin", id, "c2", FALSE)
       /\ Within(MaxAuditComments, MaxAuditInteractions)
  \/ \E id \in Ids(comments) : destroy("admin", id)
  \/ \E id \in Ids(comments) : destroy_audit_fails("admin", id)
  \/ \E id \in Ids(comments) : restore("admin", id)
  \/ \E id \in Ids(comments) : restore_audit_fails("admin", id)
  \/ \E emoji \in {"thumbsup", "heart"} : react_to_post("mem1", "p1", emoji)
  \/ \E emoji \in {"thumbsup", "heart"} : react_audit_fails("mem1", "p1", emoji)

SpecAudit == InitAudit /\ [][NextAudit]_vars

\* the change of the tables that the request of the step makes before its
\* audit write
PrimaryMutation ==
  CASE response'.op = "create" -> Len(comments') = Len(comments) + 1
    [] response'.op = "reply" -> Len(comments') = Len(comments) + 1
    [] response'.op = "destroy" -> comments'[response'.id].is_deleted
    [] response'.op = "restore" -> ~comments'[response'.id].is_deleted
    [] response'.op = "react" -> reactions' # reactions

\* C24: a request whose audit write fails leaves its primary mutation (the
\* new Comment, the soft delete, the restore, the Reaction change) in the
\* tables.
C24_AuditFailureKeepsMutation ==
  [][response'.error = AUDIT_FAILED => PrimaryMutation]_vars

(***************************************************************************)
(* Concurrent react requests.  react_to_post reads the caller's Reaction   *)
(* and then writes; between the two statements other requests run.  A      *)
(* request in flight is an entry of inflight holding what it read.  The    *)
(* storage layer enforces unique_together = ['post', 'user'] on every      *)
(* INSERT.                                                                 *)
(***************************************************************************)
NO_ROW == [id |-> 0]

\* Reaction.objects.filter(post=post, user=request.user).first()
read_existing_reaction(p, u) ==
  IF existing_reaction(p, u) = {} THEN NO_ROW
  ELSE CHOOSE r \in existing_reaction(p, u) :
         \A q \in existing_reaction(p, u) : q.id <= r.id

\* the constraint left out: every INSERT is accepted
unique_together_unenforced(rs, row) == TRUE

\* Reaction.Meta.unique_together: the INSERT of row is accepted
unique_together(rs, row) ==
  ~\E r \in rs : r.post = row.post /\ r.user = row.user

\* a primary key that no stored row has and no request in flight holds
fresh_reaction_id ==
  LET used == {r.id : r \in reactions}
                \cup {inflight[k].existing_reaction.id : k \in Ids(inflight)}
  IN  CHOOSE i \in 1..(Cardinality(used) + 1) :
        i \notin used /\ \A j \in 1..(i - 1) : j \in used

MaxRaceRequests == 3

\* the checks and the read of react_to_post
react_begin(u, p, emoji) ==
  /\ Len(inflight) < MaxRaceRequests
  /\ react_response(u, p, emoji).status \in {200, 201}
  /\ inflight' = Append(inflight,
                        [op |-> "react", user |-> u, post |-> p, emoji |-> emoji,
                         existing_reaction |-> read_existing_reaction(p, u),
                         pc |-> "read"])
  /\ UNCHANGED <<posts, comments, interactions, reactions, response, atomic_requests>>

\* the write of react_to_post: delete() of the row read, save() of the row
\* read (an UPDATE by primary key, an INSERT when no row has that key), or
\* create(); an INSERT that the constraint refuses raises IntegrityError
react_finish(k) ==
  LET req == inflight[k]
      old == req.existing_reaction
      reaction_type == EMOJI_MAP(req.emoji)
      others == {r \in reactions : r.id # old.id}
      saved == Reaction(old.id, req.post, req.user, reaction_type, req.emoji)
      created == Reaction(fresh_reaction_id, req.post, req.user, reaction_type,
                          req.emoji)
      refused == Response("react", req.user, req.post, 0, 500, SERVER_ERROR)
  IN  /\ req.pc = "read"
      /\ inflight' = [inflight EXCEPT ![k] = [@ EXCEPT !.pc = "done"]]
      /\ IF old.id # 0 /\ old.reaction_type = reaction_type
         THEN /\ reactions' = others
              /\ Returns(Response("react", req.user, req.post, 0, 200, "Reaction removed"))
         ELSE IF old.id # 0 /\ others # reactions
         THEN /\ reactions' = others \cup {saved}
              /\ Returns(Response("react", req.user, req.post, 0, 200, "Reaction updated"))
         ELSE IF old.id # 0
         THEN IF unique_together(reactions, saved)
              THEN /\ reactions' = reactions \cup {saved}
                   /\ Returns(Response("react", req.user, req.post, 0, 200, "Reaction updated"))
              ELSE reactions' = reactions /\ Returns(refused)
         ELSE IF unique_together(reactions, created)
              THEN /\ reactions' = reactions \cup {created}
                   /\ Returns(Response("react", req.user, req.post, 0, 201, "Reaction created"))
              ELSE reactions' = reactions /\ Returns(refused)
      /\ UNCHANGED <<posts, comments, interactions, atomic_requests>>

\* Two members send react requests that interleave freely; responses are
\* not recorded.
InitRace == Init /\ response = UNOBSERVED /\ atomic_requests = FALSE

NextRace ==
  \/ \E u \in {"mem1", "mem2"}, emoji \in {"thumbsup", "heart"} :
       react_begin(u, "p1", emoji)
  \/ \E k \in Ids(inflight) : react_finish(k)

SpecRace == InitRace /\ [][NextRace]_vars

\* C25: in every state reached by interleaved react requests, a post and a
\* user have at most one Reaction row.
C25_NoDuplicateReactions ==
  \A p \in Posts, u \in Users : Cardinality(rows_of(reactions, p, u)) <= 1

\* two requests of one user on one post both read that there is no row, one
\* of them has created the row and the other has not written yet
C25_Witness ==
  \E a, b \in Ids(inflight) :
    /\ a # b
    /\ inflight[a].user = inflight[b].user /\ inflight[a].post = inflight[b].post
    /\ inflight[a].existing_reaction = NO_ROW
    /\ inflight[b].existing_reaction = NO_ROW
    /\ inflight[a].pc = "done" /\ inflight[b].pc = "read"
    /\ rows_of(reactions, inflight[a].post, inflight[a].user) # {}

(***************************************************************************)
(* Concurrent answers.  An answer through reply or through respond is a    *)
(* row insert followed by two separate writes: the three answer fields of  *)
(* the question Comment, then status and responder of the Interaction.     *)
(* Other requests run between the statements.  With ATOMIC_REQUESTS the    *)
(* request is one transaction, and a row it has written stays locked for   *)
(* other writers until it ends; without it every statement commits alone.  *)
(***************************************************************************)
MaxConcurrentAnswers == 2

Answerers == {"admin", "mod1"}

\* MemberCommentViewSet.reply up to serializer.save(): the checks and the
\* insert of the reply; the request keeps the parent it loaded
reply_begin(u, id, content) ==
  /\ Len(inflight) < MaxConcurrentAnswers
  /\ reply_response(u, id, content).status = 201
  /\ comments[id].is_question
  /\ comments' = Insert(comments, Comment(comments[id].post, u, content, id, FALSE))
  /\ inflight' = Append(inflight,
                        [op |-> "reply", user |-> u, id |-> id,
                         question |-> comments[id], original_comment |-> id,
                         pc |-> "saved"])
  /\ UNCHANGED <<posts, interactions, reactions, response, atomic_requests>>

\* InteractionViewSet.respond up to the insert of the reply Interaction
respond_begin(u, iid, content) ==
  /\ Len(inflight) < MaxConcurrentAnswers
  /\ respond_response(u, iid, content).status = 200
  /\ interactions' = Insert(interactions,
                            Interaction(interactions[iid].post, u, iid, content,
                                        "COMMENT", FALSE, "CLOSED"))
  /\ inflight' = Append(inflight,
                        [op |-> "respond", user |-> u, id |-> iid,
                         question |-> interactions[iid], original_comment |-> 0,
                         pc |-> "replied"])
  /\ UNCHANGED <<posts, comments, reactions, response, atomic_requests>>

\* respond: the lookup of the original Comment and the insert of the reply
\* Comment under it
respond_reply(k) ==
  LET req == inflight[k]
      original_comment ==
        first(CorrelatedComments(comments, req.question.post, req.question.user,
                                 req.question.content))
  IN  /\ req.op = "respond" /\ req.pc = "replied"
      /\ comments' =
           IF original_comment = 0 THEN comments
           ELSE Insert(comments, Comment(req.question.post, req.user, "c2",
                                         original_comment, FALSE))
      /\ inflight' = [inflight EXCEPT ![k] =
                        [@ EXCEPT !.original_comment = original_comment,
                                  !.pc = IF original_comment = 0 THEN "answered"
                                         ELSE "saved"]]
      /\ UNCHANGED <<posts, interactions, reactions, response, atomic_requests>>

\* another request has written the Comment row and has not ended
comment_locked(k, id) ==
  atomic_requests /\ \E j \in Ids(inflight) \ {k} :
                       inflight[j].pc = "answered" /\ inflight[j].original_comment = id

\* save(update_fields=['question_status', 'answered_by', 'answered_at'])
answer_comment(k) ==
  LET req == inflight[k]
  IN  /\ req.pc = "saved"
      /\ ~comment_locked(k, req.original_comment)
      /\ comments' = [comments EXCEPT ![req.original_comment] =
                        [@ EXCEPT !.question_status = "ANSWERED",
                                  !.answered_by = req.user, !.answered_at = NOW]]
      /\ inflight' = [inflight EXCEPT ![k] = [@ EXCEPT !.pc = "answered"]]
      /\ UNCHANGED <<posts, interactions, reactions, response, atomic_requests>>

\* reply: Interaction.objects.filter(...).update(...) on the correlation key
\* of the parent; respond: interaction.mark_answered(request.user)
answer_interaction(k) ==
  LET req == inflight[k]
      updated == [i \in Ids(interactions) |->
                    IF i \in CorrelatedInteractions(interactions, req.question.post,
                                                    req.question.user,
                                                    req.question.content)
                    THEN [interactions[i] EXCEPT !.status = "ANSWERED",
                                                 !.responded_by = req.user,
                                                 !.responded_at = NOW]
                    ELSE interactions[i]]
  IN  /\ req.pc = "answered"
      /\ interactions' = IF req.op = "reply" THEN updated
                         ELSE mark_answered(interactions, req.id, req.user)
      /\ inflight' = [inflight EXCEPT ![k] = [@ EXCEPT !.pc = "done"]]
      /\ UNCHANGED <<posts, comments, reactions, response, atomic_requests>>

\* One member asks one question; an admin and the moderator who authored
\* the post answer it through either endpoint, their statements
\* interleaving; both database configurations; responses are not recorded.
InitAnswerRace == Init /\ response = UNOBSERVED

NextAnswerRace ==
  \/ comments = <<>> /\ create("mem1", "p1", "c1", 0, TRUE)
  \/ \E u \in Answerers, id \in Ids(comments) : reply_begin(u, id, "c2")
  \/ \E u \in Answerers, iid \in Ids(interactions) : respond_begin(u, iid, "c2")
  \/ \E k \in Ids(inflight) : respond_reply(k)
  \/ \E k \in Ids(inflight) : answer_comment(k)
  \/ \E k \in Ids(inflight) : answer_interaction(k)

SpecAnswerRace == InitAnswerRace /\ [][NextAnswerRace]_vars

\* C26: once two concurrent answers of one question have both ended, the
\* question Comment and the Interaction with its key are both ANSWERED and
\* name the same user as the one who answered.
C26_ConcurrentAnswersConsistent ==
  (Len(inflight) = 2 /\ \A k \in Ids(inflight) : inflight[k].pc = "done")
    => \A q \in Ids(comments) :
         comments[q].is_question =>
           \A i \in InteractionsOf(interactions, comments[q]) :
             /\ comments[q].question_status = "ANSWERED"
             /\ interactions[i].status = "ANSWERED"
             /\ comments[q].answered_by = interactions[i].responded_by

\* C27: for every comment and every viewer, with or without request
\* context, the reply_count the serializer gives is the number of entries of
\* the replies list it gives.
C27_ReplyCountMatchesList ==
  \A id \in Ids(comments), v \in Viewers :
    get_reply_count(id, v) = Len(get_replies(id, v))

\* a comment has a reply that one viewer is not shown and a reply that the
\* same viewer is shown
C27_Witness ==
  \E id \in Ids(comments), v \in Viewers :
    /\ Len(get_replies(id, v)) > 0
    /\ Len(get_replies(id, v))
         < Cardinality({i \in replies(comments, id) : ~comments[i].is_deleted})

\* C28: in every state a Comment is ANSWERED exactly when its answered_by is
\* set, and exactly when its answered_at is set: the answer sets the three
\* fields and the reopen on follow-up clears the three.
C28_AnsweredFieldsTogether ==
  \A c \in Ids(comments) :
    /\ (comments[c].question_status = "ANSWERED") = (comments[c].answered_by # NULL)
    /\ (comments[c].question_status = "ANSWERED") = (comments[c].answered_at # NULL)

\* a question that an admin answered and a follow-up of its asker reopened:
\* it is OPEN again and its responder is cleared
C28_Witness ==
  \E q \in Ids(comments) :
    /\ comments[q].is_question /\ comments[q].question_status = "OPEN"
    /\ comments[q].answered_by = NULL
    /\ \E r, f \in replies(comments, q) :
         /\ r < f
         /\ UserRole(comments[r].user) = "ADMIN"
         /\ comments[f].is_question /\ comments[f].user = comments[q].user

MaxTwinComments == 3
MaxTwinInteractions == 3

\* One member asks the same question twice on one post, and follows up; an
\* admin answers through either endpoint, hides and unhides; responses are
\* not recorded.
InitTwin == Init /\ response = UNOBSERVED /\ atomic_requests = FALSE

NextTwin ==
  \/ create("mem1", "p1", "c1", 0, TRUE)
       /\ Within(MaxTwinComments, MaxTwinInteractions)
  \/ \E u \in {"admin", "mem1"}, id \in Ids(comments) :
       reply(u, id, "c2", u = "mem1")
       /\ Within(MaxTwinComments, MaxTwinInteractions)
  \/ \E iid \in Ids(interactions) :
       respond("admin", iid, "c2")
       /\ Within(MaxTwinComments, MaxTwinInteractions)
  \/ \E iid \in Ids(interactions) : hide("admin", iid)
  \/ \E iid \in Ids(interactions) : unhide("admin", iid)

SpecTwin == InitTwin /\ [][NextTwin]_vars

\* the position of id among ids, in creation order
Rank(ids, id) == Cardinality({j \in ids : j <= id})

\* the Interaction written together with question Comment q by create: the
\* one of the same rank among the rows with the key of q, 0 when none
OwnInteraction(q) ==
  LET twins == CorrelatedComments(comments, comments[q].post, comments[q].user,
                                  comments[q].content)
      mirrors == InteractionsOf(interactions, comments[q])
      own == {i \in mirrors : Rank(mirrors, i) = Rank(twins, q)}
  IN  first(own)

\* question Comment q and its own Interaction keep status, responder and
\* deletion state in the step
Untouched(q) ==
  /\ comments'[q] = comments[q]
  /\ OwnInteraction(q) # 0 =>
       interactions'[OwnInteraction(q)] = interactions[OwnInteraction(q)]

\* C29: a step that answers, reopens, hides or unhides one question leaves
\* every other question Comment and its own Interaction as they were.
C29_NoCrossTalk ==
  [][\A q \in Ids(comments) :
       comments[q].is_question =>
         /\ \A u \in {"admin", "mem1"}, id \in Ids(comments) \ {q} :
              reply(u, id, "c2", u = "mem1") => Untouched(q)
         /\ \A iid \in Ids(interactions) \ {OwnInteraction(q)} :
              /\ respond("admin", iid, "c2") => Untouched(q)
              /\ hide("admin", iid) => Untouched(q)
              /\ unhide("admin", iid) => Untouched(q)]_vars

\* the Comment table after hide of Interaction iid followed by unhide of it,
\* from the current state: the two Comment writes of hide_steps and
\* unhide_steps in sequence (the key of the Interaction is not written)
hide_then_unhide(iid) ==
  set_deleted(set_deleted(comments, interactions[iid], TRUE),
              interactions[iid], FALSE)

\* C30: from every state and for every Interaction an admin can hide, hide
\* followed by unhide gives every Comment the is_deleted, deleted_at and
\* deleted_by it had before the hide.
C30_HideUnhideRoundTrip ==
  \A iid \in interaction_queryset("admin") :
    \A c \in Ids(comments) :
      /\ hide_then_unhide(iid)[c].is_deleted = comments[c].is_deleted
      /\ hide_then_unhide(iid)[c].deleted_at = comments[c].deleted_at
      /\ hide_then_unhide(iid)[c].deleted_by = comments[c].deleted_by

====
